---- MODULE Spec2Model ----
(***************************************************************************)
(* A model of lib/orm/fields.py (yameo): the Field base class, its typed   *)
(* subclasses, their constructors and their check/convert methods.         *)
(*                                                                         *)
(* The module is Python 2 code (the coding cookie of line 2, the           *)
(* super(Class, self) calls, and above all data.encode("utf8") compared    *)
(* with the declared values at lines 310 and 393, which only finds a       *)
(* member when encode returns a str).  Values are therefore modelled with  *)
(* Python 2's runtime types: bool, int, long, float, str (bytes), unicode, *)
(* list, NoneType, date, datetime, time.                                   *)
(***************************************************************************)
EXTENDS Integers, Sequences, FiniteSets, TLC

VARIABLES fields, heap, result

vars == <<fields, heap, result>>

(***************************************************************************)
(* Bounds of the model.                                                    *)
(***************************************************************************)
MaxStrLen == 2
MaxListLen == 2
MaxInt == 1
MaxFields == 2
MaxAclLen == 2

(***************************************************************************)
(* Python values: a record of the runtime type t and the value v.          *)
(***************************************************************************)
PyNone == [t |-> "NoneType", v |-> "None"]
\* a keyword argument that was not passed, an attribute that was never set
Absent == [t |-> "absent", v |-> "-"]
PyBool(b) == [t |-> "bool", v |-> b]
PyInt(n) == [t |-> "int", v |-> n]
PyLong == [t |-> "long", v |-> "2**64"]
PyFloat == [t |-> "float", v |-> "1.5"]
PyStr(bs) == [t |-> "str", v |-> bs]
PyUnicode(cs) == [t |-> "unicode", v |-> cs]
PyList(xs) == [t |-> "list", v |-> xs]
PyDate == [t |-> "date", v |-> "2015-01-31"]
PyDateTime == [t |-> "datetime", v |-> "2015-01-31T12:00:00Z"]
PyTime == [t |-> "time", v |-> "12:00:00"]

\* the characters of the model: two ASCII ones and one that is not
AsciiChars == {"a", "<"}
NonAsciiChar == "U+00E9"
UChars == AsciiChars \cup {NonAsciiChar}
\* the code units above 0x7F: the character itself and its two UTF-8 bytes
NonAsciiUnits == {NonAsciiChar, "0xC3", "0xA9"}

SeqsUpTo(S, n) == UNION {[1..k -> S] : k \in 0..n}

\* UTF-8: an ASCII character is one byte, U+00E9 is the two bytes C3 A9
Utf8Char(c) == IF c = NonAsciiChar THEN <<"0xC3", "0xA9">> ELSE <<c>>

RECURSIVE Utf8(_)
Utf8(cs) == IF cs = <<>> THEN <<>> ELSE Utf8Char(Head(cs)) \o Utf8(Tail(cs))

IsAscii(s) == \A i \in 1..Len(s) : s[i] \notin NonAsciiUnits

IsString(x) == x.t \in {"str", "unicode"}

\* if self.identifier: (Python's truth value of an object)
Truthy(x) ==
    CASE x.t = "bool" -> x.v
      [] x.t = "int" -> x.v # 0
      [] x.t \in {"str", "unicode", "list"} -> Len(x.v) > 0
      [] x.t \in {"NoneType", "absent"} -> FALSE
      [] OTHER -> TRUE

\* data.encode("utf8"): a unicode is encoded; a str is first decoded as ASCII
\* (Python 2's implicit conversion), which fails on a byte above 0x7F; any
\* other object has no encode attribute.
Encode(x) ==
    CASE x.t = "unicode" -> [exc |-> "ok", val |-> PyStr(Utf8(x.v))]
      [] x.t = "str" -> IF IsAscii(x.v) THEN [exc |-> "ok", val |-> x]
                        ELSE [exc |-> "UnicodeDecodeError", val |-> x]
      [] OTHER -> [exc |-> "AttributeError", val |-> x]

\* x == y as Python 2 compares: a str and a unicode are equal when the str
\* decodes as ASCII to the unicode (and unequal when it cannot be decoded);
\* a bool is the integer 0 or 1; otherwise values of different types differ.
PyEq(x, y) ==
    CASE x.t = "str" /\ y.t = "unicode" -> IsAscii(x.v) /\ x.v = y.v
      [] x.t = "unicode" /\ y.t = "str" -> IsAscii(y.v) /\ x.v = y.v
      [] x.t = "bool" /\ y.t = "int" -> y.v = (IF x.v THEN 1 ELSE 0)
      [] x.t = "int" /\ y.t = "bool" -> x.v = (IF y.v THEN 1 ELSE 0)
      [] OTHER -> x = y

\* x in values, for a list of values
PyIn(x, values) == \E i \in 1..Len(values) : PyEq(x, values[i])

\* "...'{}'".format(x) in a str template: a unicode argument is encoded as
\* ASCII, which fails on a character above 0x7F.
FormatRaises(x) == x.t = "unicode" /\ ~IsAscii(x.v)

\* raise Core400Exception("... '{}'".format(x)): the message is built first
Raise400(x) == IF FormatRaises(x) THEN "UnicodeEncodeError" ELSE "Core400Exception"

(***************************************************************************)
(* Regular expressions.  A compiled pattern is an optional leading ".*",   *)
(* a sequence of character classes and an optional trailing "$".           *)
(***************************************************************************)
NoRegex == [t |-> "NoneType", v |-> "None"]
Regex(any, cls, end) == [t |-> "regex", v |-> [any |-> any, cls |-> cls, end |-> end]]

\* re.compile(rx) of a pattern written as a sequence of tokens
Compile(src) ==
    LET any == Len(src) > 0 /\ src[1] = ".*"
        end == Len(src) > 0 /\ src[Len(src)] = "$"
        lo == IF any THEN 2 ELSE 1
        hi == IF end THEN Len(src) - 1 ELSE Len(src)
    IN Regex(any, [i \in 1..(hi - lo + 1) |-> {src[lo + i - 1]}], end)

MatchAt(p, s, i) ==
    /\ i + Len(p.cls) - 1 <= Len(s)
    /\ \A j \in 1..Len(p.cls) : s[i + j - 1] \in p.cls[j]
    /\ p.end => i + Len(p.cls) - 1 = Len(s)

\* regex.match(data): a match object or None; anchored at the start
ReMatch(p, s) ==
    \E i \in (IF p.any THEN 1..(Len(s) + 1) ELSE {1}) : MatchAt(p, s, i)

\* regex.match(data) with its argument check: "match", "none" or TypeError
RegexMatch(rx, data) ==
    IF ~IsString(data) THEN "TypeError"
    ELSE IF ReMatch(rx.v, data.v) THEN "match" ELSE "none"

\* the patterns of lib/regex.py
XSS == Regex(TRUE, <<{"<"}>>, FALSE)
HTMLColor == Regex(FALSE, <<{"a"}>>, TRUE)
MAIL == Regex(FALSE, <<{"a"}, {"a"}>>, TRUE)
PHONE == Regex(FALSE, <<{"a"}>>, FALSE)
URL == Regex(FALSE, <<{"a"}, {"a", "<"}>>, FALSE)
RFC3339date == Regex(FALSE, <<{"a"}, {"<"}>>, TRUE)
RFC3339datetime == Regex(FALSE, <<{"a"}, {"<"}>>, FALSE)
RFC3339time == Regex(FALSE, <<{"<"}>>, TRUE)

(***************************************************************************)
(* The mime-type registry of lib/mimetype.py.                              *)
(***************************************************************************)
MimePNG == PyStr(<<"image/png">>)
MimeJPEG == PyStr(<<"image/jpeg">>)
MimeGIF == PyStr(<<"image/gif">>)
MimeBMP == PyStr(<<"image/bmp">>)
MimePDF == PyStr(<<"application/pdf">>)
MimeUnknown == PyStr(<<"application/x-unknown">>)

Ext(e) == PyStr(<<e>>)

MimeExtensions(m) ==
    CASE m = MimePNG -> {"png"}
      [] m = MimeJPEG -> {"jpg", "jpeg", "jpe"}
      [] m = MimeGIF -> {"gif"}
      [] m = MimeBMP -> {"bmp"}
      [] m = MimePDF -> {"pdf"}
      [] OTHER -> {}

KnownMimes == {MimePNG, MimeJPEG, MimeGIF, MimeBMP, MimePDF}

MimeType_openformat == PyList(<<MimePNG, MimePDF>>)
MimeType_image == PyList(<<MimePNG, MimeJPEG, MimeGIF, MimeBMP>>)

\* MimeType.check(mimeTypes): every listed mime type is a supported one
MimeType_check(mimeTypes) ==
    /\ mimeTypes.t = "list"
    /\ \A i \in 1..Len(mimeTypes.v) : mimeTypes.v[i] \in KnownMimes

\* MimeType.checkExtension(mimeType, extension)
MimeType_checkExtension(mimeType, extension) ==
    \E m \in KnownMimes :
        /\ PyEq(mimeType, m)
        /\ \E e \in MimeExtensions(m) : PyEq(extension, Ext(e))

(***************************************************************************)
(* Objects.  An instance is its class name and its attribute dictionary;   *)
(* a list held by an attribute is a reference into the heap, so that two   *)
(* attributes can hold the same list object.                               *)
(***************************************************************************)
FieldParams ==
    {"fieldName", "label", "help", "default", "identifier", "require", "copy",
     "unique", "compute", "constraints", "index", "readwrite", "readonly",
     "backendType"}

SubParams ==
    {"mimeTypes", "mimeType", "extension", "size", "precision", "values",
     "regex", "length", "zerofill", "unsigned"}

AttrNames == FieldParams \cup SubParams

\* **kw with no keyword given
NoKw == [k \in AttrNames |-> Absent]

\* an instance before __init__ has set anything
NewObject == [k \in AttrNames |-> Absent]

\* a slot: the instance's class and attributes, and (as a history of the
\* model, no attribute of the instance) the keywords it was constructed with
NoField == [cls |-> "none", attrs |-> NewObject, kw |-> NoKw]

Ref(owner, attr) == [t |-> "ref", v |-> [owner |-> owner, attr |-> attr]]

\* the two list objects built once, when the def statement of
\* Field.__init__ is executed: readwrite=['*'], readonly=['*']
DefaultReadwrite == Ref(0, "readwrite")
DefaultReadonly == Ref(0, "readonly")

\* the default values of Field.__init__'s parameters
FieldDefault(k) ==
    CASE k \in {"fieldName", "label", "help", "default", "compute",
                "constraints", "backendType"} -> PyNone
      [] k \in {"identifier", "unique", "index"} -> PyBool(FALSE)
      [] k \in {"require", "copy"} -> PyBool(TRUE)
      [] k = "readwrite" -> DefaultReadwrite
      [] k = "readonly" -> DefaultReadonly

\* kw.pop(k, d)
Pop(kw, k, d) == IF kw[k] = Absent THEN d ELSE kw[k]

\* kw after the keys ks were popped
Without(kw, ks) == [k \in AttrNames |-> IF k \in ks THEN Absent ELSE kw[k]]

\* a constructor's result: the exception raised ("ok" for none) and the
\* instance as far as it was initialised
Raised(exc, self) == [exc |-> exc, self |-> self]

(***************************************************************************)
(* Constructors.                                                           *)
(***************************************************************************)
\* Field.__init__ without the identifier branch of lines 58-60
Field_init_keeps_require(self, kw) ==
    IF \E k \in SubParams : kw[k] # Absent
    THEN Raised("TypeError", self)
    ELSE Raised("ok",
                [k \in AttrNames |->
                    IF k \in FieldParams THEN Pop(kw, k, FieldDefault(k))
                    ELSE self[k]])

\* Field.__init__(self, fieldName=None, ..., backendType=None); a keyword
\* that is not one of its parameters is a TypeError
Field_init(self, kw) ==
    IF \E k \in SubParams : kw[k] # Absent
    THEN Raised("TypeError", self)
    ELSE LET identifier == Pop(kw, "identifier", FieldDefault("identifier"))
         IN Raised("ok",
                [k \in AttrNames |->
                    CASE k = "default" ->
                            IF Truthy(identifier) THEN PyNone
                            ELSE Pop(kw, k, FieldDefault(k))
                      [] k = "require" ->
                            IF Truthy(identifier) THEN PyBool(TRUE)
                            ELSE Pop(kw, k, FieldDefault(k))
                      [] k \in FieldParams \ {"default", "require"} ->
                            Pop(kw, k, FieldDefault(k))
                      [] OTHER -> self[k]])

BinaryField_init(self, kw) ==
    LET mimeTypes == Pop(kw, "mimeTypes", MimeType_openformat)
        s1 == [self EXCEPT !["mimeTypes"] = mimeTypes]
    IN IF ~MimeType_check(mimeTypes) THEN Raised("Core500Exception", s1)
       ELSE Field_init(s1, Without(kw, {"mimeTypes"}))

ImageField_init(self, kw) ==
    LET mimeTypes == Pop(kw, "mimeTypes", MimeType_image)
        mimeType == Pop(kw, "mimeType", MimePNG)
        extension == Pop(kw, "extension", Ext("png"))
        s1 == [self EXCEPT !["mimeTypes"] = mimeTypes,
                           !["mimeType"] = mimeType,
                           !["extension"] = extension]
        rest == Without(kw, {"mimeTypes", "mimeType", "extension"})
    IN IF ~MimeType_check(mimeTypes) THEN Raised("Core500Exception", s1)
       ELSE IF ~PyIn(mimeType, mimeTypes.v)
       THEN Raised(IF FormatRaises(mimeType) THEN "UnicodeEncodeError"
                   ELSE "Core500Exception", s1)
       ELSE IF ~MimeType_checkExtension(mimeType, extension)
       THEN Raised(Raise400(extension), s1)
       ELSE BinaryField_init(s1, [rest EXCEPT !["mimeTypes"] = mimeTypes])

BoolField_init(self, kw) == Field_init(self, kw)

ColorField_init(self, kw) ==
    Field_init([self EXCEPT !["length"] = PyInt(15)], kw)

CurrencyField_init(self, kw) ==
    Field_init([self EXCEPT !["size"] = PyInt(10), !["precision"] = PyInt(2)], kw)

DateField_init(self, kw) == Field_init(self, kw)

DateTimeField_init(self, kw) == Field_init(self, kw)

DecimalField_init(self, kw) ==
    Field_init([self EXCEPT !["size"] = Pop(kw, "size", PyInt(10)),
                            !["precision"] = Pop(kw, "precision", PyInt(5))],
               Without(kw, {"size", "precision"}))

EmailField_init(self, kw) ==
    Field_init([self EXCEPT !["length"] = PyInt(255)], kw)

EnumField_init(self, kw) ==
    LET values == Pop(kw, "values", PyNone)
        s1 == [self EXCEPT !["values"] = values]
    IN IF values = PyNone THEN Raised("Core500Exception", s1)
       ELSE Field_init(s1, Without(kw, {"values"}))

ListField_init(self, kw) ==
    LET rx == Pop(kw, "regex", PyNone)
        s1 == [self EXCEPT !["regex"] =
                  IF rx # PyNone THEN Compile(rx.v) ELSE XSS]
    IN Field_init(s1, Without(kw, {"regex"}))

IntField_init(self, kw) ==
    Field_init([self EXCEPT !["size"] = Pop(kw, "size", PyNone),
                            !["zerofill"] = Pop(kw, "zerofill", PyBool(FALSE)),
                            !["unsigned"] = Pop(kw, "unsigned", PyBool(FALSE))],
               Without(kw, {"size", "zerofill", "unsigned"}))

SetField_init(self, kw) ==
    LET values == Pop(kw, "values", PyNone)
        s1 == [self EXCEPT !["values"] = values]
    IN IF values = PyNone THEN Raised("Core500Exception", s1)
       ELSE Field_init(s1, Without(kw, {"values"}))

StringField_init(self, kw) ==
    LET rx == Pop(kw, "regex", PyNone)
        s1 == [self EXCEPT !["length"] = Pop(kw, "length", PyNone),
                           !["regex"] =
                  IF rx # PyNone THEN Compile(rx.v) ELSE XSS]
    IN Field_init(s1, Without(kw, {"length", "regex"}))

PhoneField_init(self, kw) ==
    Field_init([self EXCEPT !["length"] = PyInt(20)], kw)

TimeField_init(self, kw) == Field_init(self, kw)

URLField_init(self, kw) ==
    Field_init([self EXCEPT !["length"] = PyInt(2048)], kw)

Classes ==
    {"Field", "BinaryField", "ImageField", "BoolField", "ColorField",
     "CurrencyField", "DateField", "DateTimeField", "DecimalField",
     "EmailField", "EnumField", "ListField", "IntField", "SetField",
     "StringField", "PhoneField", "TimeField", "URLField"}

\* cls(**kw): a new instance of cls, initialised by the class's __init__
New(cls, kw) ==
    CASE cls = "Field" -> Field_init(NewObject, kw)
      [] cls = "BinaryField" -> BinaryField_init(NewObject, kw)
      [] cls = "ImageField" -> ImageField_init(NewObject, kw)
      [] cls = "BoolField" -> BoolField_init(NewObject, kw)
      [] cls = "ColorField" -> ColorField_init(NewObject, kw)
      [] cls = "CurrencyField" -> CurrencyField_init(NewObject, kw)
      [] cls = "DateField" -> DateField_init(NewObject, kw)
      [] cls = "DateTimeField" -> DateTimeField_init(NewObject, kw)
      [] cls = "DecimalField" -> DecimalField_init(NewObject, kw)
      [] cls = "EmailField" -> EmailField_init(NewObject, kw)
      [] cls = "EnumField" -> EnumField_init(NewObject, kw)
      [] cls = "ListField" -> ListField_init(NewObject, kw)
      [] cls = "IntField" -> IntField_init(NewObject, kw)
      [] cls = "SetField" -> SetField_init(NewObject, kw)
      [] cls = "StringField" -> StringField_init(NewObject, kw)
      [] cls = "PhoneField" -> PhoneField_init(NewObject, kw)
      [] cls = "TimeField" -> TimeField_init(NewObject, kw)
      [] cls = "URLField" -> URLField_init(NewObject, kw)

(***************************************************************************)
(* check methods.  Each gives the outcome of the call: "ok" when it        *)
(* returns, else the name of the exception that leaves it.                 *)
(***************************************************************************)
\* the class attribute regex: Field.regex = None, overridden by subclasses
ClassRegex(cls) ==
    CASE cls = "ColorField" -> HTMLColor
      [] cls = "DateField" -> RFC3339date
      [] cls = "DateTimeField" -> RFC3339datetime
      [] cls = "EmailField" -> MAIL
      [] cls = "PhoneField" -> PHONE
      [] cls = "TimeField" -> RFC3339time
      [] cls = "URLField" -> URL
      [] OTHER -> NoRegex

\* self.regex: the instance attribute when __init__ set one, else the class's
SelfRegex(f) ==
    IF f.attrs["regex"] # Absent THEN f.attrs["regex"] ELSE ClassRegex(f.cls)

\* Field.check with the test of line 79 inverted ("is not None")
Field_check_inverted(f, data) ==
    IF SelfRegex(f) # NoRegex
    THEN LET m == RegexMatch(SelfRegex(f), data)
         IN IF m = "TypeError" THEN "TypeError"
            ELSE IF m = "match" THEN Raise400(data)
            ELSE "ok"
    ELSE "ok"

Field_check(f, data) ==
    IF SelfRegex(f) # NoRegex
    THEN LET m == RegexMatch(SelfRegex(f), data)
         IN IF m = "TypeError" THEN "TypeError"
            ELSE IF m = "none" THEN Raise400(data)
            ELSE "ok"
    ELSE "ok"

BinaryField_check(f, mimeType, extension) ==
    IF ~PyIn(mimeType, f.attrs["mimeTypes"].v) THEN Raise400(mimeType)
    ELSE IF ~MimeType_checkExtension(mimeType, extension)
    THEN (IF FormatRaises(mimeType) \/ FormatRaises(extension)
          THEN "UnicodeEncodeError" ELSE "Core400Exception")
    ELSE "ok"

BoolField_check(f, data) ==
    IF data.t # "bool" THEN Raise400(data) ELSE "ok"

CurrencyField_check(f, data) ==
    IF data.t # "float" /\ data.t # "int" THEN Raise400(data) ELSE "ok"

DateField_check(f, data) ==
    IF data.t # "date" THEN Raise400(data) ELSE "ok"

DateTimeField_check(f, data) ==
    IF data.t # "datetime" THEN Raise400(data) ELSE "ok"

DecimalField_check(f, data) ==
    IF data.t # "float" /\ data.t # "int" THEN Raise400(data) ELSE "ok"

EnumField_check(f, data) ==
    IF data.t = "list" THEN "Core400Exception"
    ELSE LET e == Encode(data)
         IN IF e.exc # "ok" THEN e.exc
            ELSE IF ~PyIn(e.val, f.attrs["values"].v) THEN "Core400Exception"
            ELSE "ok"

\* for val in data: if self.regex.match(val) is not None: raise ...
RECURSIVE ListField_loop(_, _)
ListField_loop(rx, vals) ==
    IF vals = <<>> THEN "ok"
    ELSE LET m == RegexMatch(rx, Head(vals))
         IN IF m = "TypeError" THEN "TypeError"
            ELSE IF m = "match" THEN Raise400(Head(vals))
            ELSE ListField_loop(rx, Tail(vals))

ListField_check(f, data) ==
    IF data.t # "list" THEN Raise400(data)
    ELSE ListField_loop(SelfRegex(f), data.v)

IntField_check(f, data) ==
    IF data.t # "int" THEN Raise400(data) ELSE "ok"

\* for val in data: if val.encode("utf8") not in self.values: raise ...
RECURSIVE SetField_loop(_, _)
SetField_loop(values, vals) ==
    IF vals = <<>> THEN "ok"
    ELSE LET e == Encode(Head(vals))
         IN IF e.exc # "ok" THEN e.exc
            ELSE IF ~PyIn(e.val, values) THEN "Core400Exception"
            ELSE SetField_loop(values, Tail(vals))

SetField_check(f, data) ==
    IF data.t # "list" THEN Raise400(data)
    ELSE SetField_loop(f.attrs["values"].v, data.v)

\* StringField.check with the test of line 418 as in Field.check ("is None")
StringField_check_is_none(f, data) ==
    LET m == RegexMatch(SelfRegex(f), data)
    IN IF m = "TypeError" THEN "TypeError"
       ELSE IF m = "none" THEN Raise400(data)
       ELSE "ok"

StringField_check(f, data) ==
    LET m == RegexMatch(SelfRegex(f), data)
    IN IF m = "TypeError" THEN "TypeError"
       ELSE IF m = "match" THEN Raise400(data)
       ELSE "ok"

TimeField_check(f, data) ==
    IF data.t # "time" THEN Raise400(data) ELSE "ok"

\* field.check(data): the method the instance's class resolves check to
CheckOf(f, data) ==
    CASE f.cls = "BoolField" -> BoolField_check(f, data)
      [] f.cls = "CurrencyField" -> CurrencyField_check(f, data)
      [] f.cls = "DateField" -> DateField_check(f, data)
      [] f.cls = "DateTimeField" -> DateTimeField_check(f, data)
      [] f.cls = "DecimalField" -> DecimalField_check(f, data)
      [] f.cls = "EnumField" -> EnumField_check(f, data)
      [] f.cls = "ListField" -> ListField_check(f, data)
      [] f.cls = "IntField" -> IntField_check(f, data)
      [] f.cls = "SetField" -> SetField_check(f, data)
      [] f.cls = "StringField" -> StringField_check(f, data)
      [] f.cls = "TimeField" -> TimeField_check(f, data)
      [] OTHER -> Field_check(f, data)

BinaryClasses == {"BinaryField", "ImageField"}

(***************************************************************************)
(* ImageField.convert and the image codec (PIL) it calls.  A stream is an  *)
(* object (oid) holding either an image in some format and mode or bytes   *)
(* that are no image.                                                      *)
(***************************************************************************)
Stream(oid, fmt, mode) == [t |-> "stream", v |-> [oid |-> oid, fmt |-> fmt, mode |-> mode]]

\* Image.open(data): fails on a stream that holds no image
Image_open(data) == IF data.v.fmt = "none" THEN "IOError" ELSE "ok"

\* image.save(tmp, filetype): JPEG has no alpha channel; a codec release
\* either drops the channel (lenient) or refuses to write the image
Image_save(data, filetype, lenient) ==
    IF filetype = "JPEG" /\ data.v.mode = "RGBA" /\ ~lenient THEN "IOError" ELSE "ok"

\* ImageField.convert saving in the format of the input (image.format)
\* instead of the one its extension names
ImageField_convert_input_format(f, data, lenient) ==
    LET e == f.attrs["extension"]
        known == PyIn(e, <<Ext("jpg"), Ext("jpeg"), Ext("jpe"), Ext("png"), Ext("gif")>>)
    IN IF ~known THEN [exc |-> "ok", ret |-> data]
       ELSE IF Image_open(data) # "ok" THEN [exc |-> Image_open(data), ret |-> PyNone]
       ELSE IF Image_save(data, data.v.fmt, lenient) # "ok"
       THEN [exc |-> Image_save(data, data.v.fmt, lenient), ret |-> PyNone]
       ELSE [exc |-> "ok", ret |-> Stream("tmp", data.v.fmt, data.v.mode)]

\* ImageField.convert(data): [exc, ret]
ImageField_convert(f, data, lenient) ==
    LET e == f.attrs["extension"]
        filetype ==
            IF PyIn(e, <<Ext("jpg"), Ext("jpeg"), Ext("jpe")>>) THEN "JPEG"
            ELSE IF PyIn(e, <<Ext("png")>>) THEN "PNG"
            ELSE IF PyIn(e, <<Ext("gif")>>) THEN "GIF"
            ELSE "none"
    IN IF filetype = "none" THEN [exc |-> "ok", ret |-> data]
       ELSE IF Image_open(data) # "ok" THEN [exc |-> Image_open(data), ret |-> PyNone]
       ELSE IF Image_save(data, filetype, lenient) # "ok"
       THEN [exc |-> Image_save(data, filetype, lenient), ret |-> PyNone]
       ELSE [exc |-> "ok",
             ret |-> Stream("tmp", filetype,
                            IF filetype = "JPEG" /\ data.v.mode = "RGBA"
                            THEN "RGB" ELSE data.v.mode)]

(***************************************************************************)
(* The inputs of the model.                                                *)
(***************************************************************************)
UnicodeStrings == {PyUnicode(cs) : cs \in SeqsUpTo(UChars, MaxStrLen)}
ByteStrings == {PyStr(Utf8(u.v)) : u \in UnicodeStrings}
Strings == UnicodeStrings \cup ByteStrings

Scalars ==
    {PyNone, PyBool(TRUE), PyBool(FALSE), PyLong, PyFloat, PyDate, PyDateTime, PyTime}
        \cup {PyInt(n) : n \in 0..MaxInt}

\* the elements of the lists passed to check: the short strings and a non-string
ListElems == {x \in Strings : Len(x.v) <= 1} \cup {PyInt(0)}
Lists == {PyList(xs) : xs \in SeqsUpTo(ListElems, MaxListLen)}

Values == Scalars \cup Strings \cup Lists

\* the keywords every constructor is tried with
CommonKw ==
    {[NoKw EXCEPT !["identifier"] = i, !["require"] = r, !["default"] = d] :
        i \in {Absent, PyBool(TRUE), PyBool(FALSE)},
        r \in {Absent, PyBool(FALSE)},
        d \in {Absent, PyInt(1)}}

\* the custom patterns given as regex=: "a", ".*a$"
CustomRegexes == {PyStr(<<"a">>), PyStr(<<".*", "a", "$">>)}

\* the collections given as values=
ValueLists ==
    {PyList(<<PyStr(<<"a">>), PyStr(<<"<">>)>>),
     PyList(<<PyStr(<<"0xC3", "0xA9">>), PyUnicode(<<"a">>)>>),
     PyList(<<PyInt(0), PyStr(<<"a">>)>>)}

MimeLists ==
    {PyList(<<MimePNG, MimeJPEG>>), PyList(<<MimePDF, MimeUnknown>>)}

\* the keywords a class documents, each absent or given
SubKw(cls) ==
    CASE cls \in {"CurrencyField", "DecimalField"} ->
            {[NoKw EXCEPT !["size"] = a, !["precision"] = b] :
                a \in {Absent, PyInt(12)}, b \in {Absent, PyInt(3)}}
      [] cls = "IntField" ->
            {[NoKw EXCEPT !["size"] = a, !["unsigned"] = b] :
                a \in {Absent, PyInt(12)}, b \in {Absent, PyBool(TRUE)}}
      [] cls = "StringField" ->
            {[NoKw EXCEPT !["length"] = a, !["regex"] = b] :
                a \in {Absent, PyInt(64)}, b \in {Absent} \cup CustomRegexes}
      [] cls \in {"EmailField", "PhoneField", "URLField"} ->
            {[NoKw EXCEPT !["length"] = a] : a \in {Absent, PyInt(64)}}
      [] cls \in {"EnumField", "SetField"} ->
            {[NoKw EXCEPT !["values"] = a] : a \in {Absent} \cup ValueLists}
      [] cls = "ListField" ->
            {[NoKw EXCEPT !["regex"] = a] : a \in {Absent} \cup CustomRegexes}
      [] cls = "BinaryField" ->
            {[NoKw EXCEPT !["mimeTypes"] = a] : a \in {Absent} \cup MimeLists}
      [] cls = "ImageField" ->
            {[NoKw EXCEPT !["mimeTypes"] = a, !["mimeType"] = b, !["extension"] = c] :
                a \in {Absent} \cup MimeLists,
                b \in {Absent, MimeJPEG, MimeBMP},
                c \in {Absent, Ext("jpg"), Ext("bmp")}}
      [] OTHER -> {NoKw}

Merge(kw1, kw2) == [k \in AttrNames |-> IF kw2[k] # Absent THEN kw2[k] ELSE kw1[k]]

KwFor(cls) == {Merge(c, x) : c \in CommonKw, x \in SubKw(cls)}

MimeInputs ==
    {MimePNG, MimeJPEG, MimePDF, MimeUnknown, PyUnicode(<<"image/png">>),
     PyUnicode(<<NonAsciiChar>>), PyInt(0)}

ExtInputs ==
    {Ext("png"), Ext("jpg"), Ext("pdf"), PyUnicode(<<"png">>),
     PyUnicode(<<NonAsciiChar>>)}

StreamInputs ==
    {Stream("in", fmt, mode) : fmt \in {"JPEG", "PNG", "GIF", "BMP"},
                               mode \in {"RGB", "RGBA"}}
        \cup {Stream("in", "none", "none")}

(***************************************************************************)
(* State.  fields: the instances constructed so far, by slot; heap: the    *)
(* contents of the list objects; result: the call in progress, as its      *)
(* caller sees it when it returns or raises.                               *)
(***************************************************************************)
Slots == 1..MaxFields

Refs == {Ref(o, a) : o \in 0..MaxFields, a \in {"readwrite", "readonly"}}

Idle ==
    [op |-> "idle", slot |-> 0, cls |-> "none", kw |-> NoKw, data |-> Absent,
     data2 |-> Absent, exc |-> "ok", ret |-> Absent]

Init ==
    /\ fields = [s \in Slots |-> NoField]
    /\ heap = [r \in Refs |-> IF r.v.owner = 0 THEN <<"*">> ELSE <<"admin">>]
    /\ result = Idle

\* field = cls(**kw) at model-declaration time
Construct(slot, cls, kw) ==
    /\ result.op = "idle"
    /\ fields[slot] = NoField
    /\ LET r == New(cls, kw)
       IN /\ fields' = [fields EXCEPT ![slot] =
                           IF r.exc = "ok"
                           THEN [cls |-> cls, attrs |-> r.self, kw |-> kw]
                           ELSE NoField]
          /\ result' = [Idle EXCEPT !.op = "init", !.slot = slot, !.cls = cls,
                                    !.kw = kw, !.exc = r.exc]
    /\ UNCHANGED heap

\* field.check(data)
Check(slot, data) ==
    /\ result.op = "idle"
    /\ fields[slot] # NoField
    /\ fields[slot].cls \notin BinaryClasses
    /\ result' = [Idle EXCEPT !.op = "check", !.slot = slot,
                              !.cls = fields[slot].cls, !.data = data,
                              !.exc = CheckOf(fields[slot], data)]
    /\ UNCHANGED <<fields, heap>>

\* field.check(mimeType, extension) of a BinaryField or an ImageField
CheckBinary(slot, mimeType, extension) ==
    /\ result.op = "idle"
    /\ fields[slot] # NoField
    /\ fields[slot].cls \in BinaryClasses
    /\ result' = [Idle EXCEPT !.op = "check", !.slot = slot,
                              !.cls = fields[slot].cls, !.data = mimeType,
                              !.data2 = extension,
                              !.exc = BinaryField_check(fields[slot], mimeType, extension)]
    /\ UNCHANGED <<fields, heap>>

\* field.convert(data) of an ImageField
Convert(slot, data, lenient) ==
    /\ result.op = "idle"
    /\ fields[slot] # NoField
    /\ fields[slot].cls = "ImageField"
    /\ LET r == ImageField_convert(fields[slot], data, lenient)
       IN result' = [Idle EXCEPT !.op = "convert", !.slot = slot,
                                 !.cls = fields[slot].cls, !.data = data,
                                 !.exc = r.exc, !.ret = r.ret]
    /\ UNCHANGED <<fields, heap>>

\* the caller takes the value returned or handles the exception
Return ==
    /\ result.op # "idle"
    /\ result' = Idle
    /\ UNCHANGED <<fields, heap>>

Next ==
    \/ \E cls \in Classes : \E kw \in KwFor(cls) : Construct(1, cls, kw)
    \/ \E data \in Values : Check(1, data)
    \/ \E m \in MimeInputs : \E e \in ExtInputs : CheckBinary(1, m, e)
    \/ \E data \in StreamInputs : \E lenient \in BOOLEAN : Convert(1, data, lenient)
    \/ Return

Spec == Init /\ [][Next]_vars

(***************************************************************************)
(* Several fields side by side, with the access-control lists their        *)
(* readwrite and readonly attributes hold and a caller that updates one.   *)
(***************************************************************************)
\* field.readwrite.append(x) / field.readonly.append(x), by the code that
\* maintains a field's ACL
AclAppend(slot, attr, x) ==
    /\ result.op = "idle"
    /\ fields[slot] # NoField
    /\ Len(heap[fields[slot].attrs[attr]]) < MaxAclLen
    /\ heap' = [heap EXCEPT ![fields[slot].attrs[attr]] = Append(@, x)]
    /\ result' = [Idle EXCEPT !.op = "acl", !.slot = slot,
                              !.cls = fields[slot].cls, !.data = PyStr(<<attr>>)]
    /\ UNCHANGED fields

\* readwrite= and readonly= left to their defaults or given the caller's own list
AclKw(slot) ==
    {[NoKw EXCEPT !["readwrite"] = a, !["readonly"] = b] :
        a \in {Absent, Ref(slot, "readwrite")},
        b \in {Absent, Ref(slot, "readonly")}}

NextShared ==
    \/ \E s \in Slots : \E cls \in {"Field", "ImageField"} : \E kw \in AclKw(s) :
          Construct(s, cls, kw)
    \/ \E s \in Slots : \E data \in {PyInt(0), PyUnicode(<<"a">>)} : Check(s, data)
    \/ \E s \in Slots : \E e \in {Ext("png"), Ext("pdf")} : CheckBinary(s, MimePNG, e)
    \/ \E s \in Slots : \E data \in {Stream("in", "JPEG", "RGB"), Stream("in", "none", "none")} :
          Convert(s, data, TRUE)
    \/ \E s \in Slots : \E attr \in {"readwrite", "readonly"} : AclAppend(s, attr, "guest")
    \/ Return

SpecShared == Init /\ [][NextShared]_vars

(***************************************************************************)
(* Properties.                                                             *)
(***************************************************************************)
\* the field the call in progress was made on
Self == fields[result.slot]

Checked == result.op = "check" /\ result.cls \notin BinaryClasses

\* the exception a failed check of the string s ends with: the validation
\* error, or the error of formatting its message
StringRejection(x) ==
    IF x.t = "unicode" /\ \E i \in 1..Len(x.v) : x.v[i] = NonAsciiChar
    THEN "UnicodeEncodeError" ELSE "Core400Exception"

\* C1: a field constructed with identifier=True reports require == True and
\* default == None whatever require= and default= it was given, in every
\* state: right after construction and after any sequence of check calls.
C1_IdentifierForcesRequire ==
    \A s \in Slots :
        (fields[s] # NoField /\ fields[s].kw["identifier"] = PyBool(TRUE)) =>
            /\ fields[s].attrs["identifier"] = PyBool(TRUE)
            /\ fields[s].attrs["require"] = PyBool(TRUE)
            /\ fields[s].attrs["default"] = PyNone

\* an identifier field given require=False and default=1, after a check call
C1_Witness ==
    /\ result.op = "check"
    /\ Self.kw["identifier"] = PyBool(TRUE)
    /\ Self.kw["require"] = PyBool(FALSE)
    /\ Self.kw["default"] = PyInt(1)
    /\ Self.attrs["require"] = PyBool(TRUE)

C3_EnumSetMembership ==
    /\ (Checked /\ result.cls = "EnumField") =>
          IF result.data.t # "list" /\ PyIn(result.data, Self.attrs["values"].v)
          THEN result.exc = "ok"
          ELSE result.exc = "Core400Exception"
    /\ (Checked /\ result.cls = "SetField") =>
          IF /\ result.data.t = "list"
             /\ \A i \in 1..Len(result.data.v) :
                   PyIn(result.data.v[i], Self.attrs["values"].v)
          THEN result.exc = "ok"
          ELSE result.exc = "Core400Exception"

\* C4: a constructor that fails raises the configuration error
\* (Core500Exception) and a check that fails raises the validation error
\* (Core400Exception).
C4_ErrorKinds ==
    /\ (result.op = "init" /\ result.exc # "ok") => result.exc = "Core500Exception"
    /\ (result.op = "check" /\ result.exc # "ok") => result.exc = "Core400Exception"

\* C5: BoolField.check(v) returns iff v is a bool, IntField.check(v) iff v is
\* an int, CurrencyField.check(v) and DecimalField.check(v) iff v is an int
\* or a float; every other input raises a validation error.
C5_TypeChecks ==
    (Checked /\ result.cls \in {"BoolField", "IntField", "CurrencyField", "DecimalField"}) =>
        LET accepted ==
                CASE result.cls = "BoolField" -> {"bool"}
                  [] result.cls = "IntField" -> {"int"}
                  [] OTHER -> {"int", "float"}
        IN IF result.data.t \in accepted THEN result.exc = "ok"
           ELSE result.exc = "Core400Exception"

\* C6: for a BinaryField or ImageField with allow-list M, check(mimeType,
\* extension) returns iff mimeType is in M and the registry says the
\* extension belongs to it; otherwise it raises a validation error.
C6_BinaryCheck ==
    (result.op = "check" /\ result.cls \in BinaryClasses) =>
        IF /\ PyIn(result.data, Self.attrs["mimeTypes"].v)
           /\ MimeType_checkExtension(result.data, result.data2)
        THEN result.exc = "ok"
        ELSE result.exc = "Core400Exception"

\* the pattern a String or List field applies: the custom one when regex= was
\* given, else the XSS-risk pattern
GivenPattern(f) ==
    IF f.kw["regex"] = Absent THEN XSS.v ELSE Compile(f.kw["regex"].v).v

Convertible == {"jpg", "jpeg", "jpe", "png", "gif"}

FormatOf(e) ==
    CASE e \in {"jpg", "jpeg", "jpe"} -> "JPEG"
      [] e = "png" -> "PNG"
      [] e = "gif" -> "GIF"

\* C8 as stated: with an output extension outside jpg, jpeg, jpe, png, gif
\* convert(d) returns d itself; otherwise, for every input stream d, it
\* returns a new stream in the format the extension determines.
C8_ConvertAlwaysReturns ==
    result.op = "convert" =>
        LET e == Self.attrs["extension"].v[1]
        IN /\ result.exc = "ok"
           /\ IF e \notin Convertible THEN result.ret = result.data
              ELSE /\ result.ret.t = "stream"
                   /\ result.ret.v.oid # result.data.v.oid
                   /\ result.ret.v.fmt = FormatOf(e)

C8_ConvertResult ==
    result.op = "convert" =>
        LET e == Self.attrs["extension"].v[1]
            d == result.data.v
        IN IF e \notin Convertible
           THEN result.exc = "ok" /\ result.ret = result.data
           ELSE /\ d.fmt = "none" => result.exc = "IOError"
                /\ (d.fmt # "none" /\ ~(FormatOf(e) = "JPEG" /\ d.mode = "RGBA"))
                      => result.exc = "ok"
                /\ result.exc \in {"ok", "IOError"}
                /\ result.exc = "ok" =>
                      /\ result.ret.t = "stream"
                      /\ result.ret.v.oid # d.oid
                      /\ result.ret.v.fmt = FormatOf(e)

\* C8 amended: with an output extension outside jpg, jpeg, jpe, png, gif
\* convert(d) returns d itself; otherwise, when d holds an image the codec
\* can decode and write in the output format, it returns a new stream in the
\* format the extension alone determines, and when d holds no image (or the
\* codec refuses to write it) it raises the codec's IOError; in every case
\* the field's attributes are unchanged.
C8_ConvertDecodable ==
    /\ []C8_ConvertResult
    /\ [][result'.op = "convert" => fields' = fields]_vars

\* a PNG stream converted by a field whose output extension is jpg
C8_Witness ==
    /\ result.op = "convert"
    /\ Self.attrs["extension"] = Ext("jpg")
    /\ result.data.v.fmt = "PNG"
    /\ result.exc = "ok"
    /\ result.ret.v.fmt = "JPEG"
    /\ result.ret.v.oid # result.data.v.oid

\* what a reader of field s observes: its attributes and the contents of
\* its two access-control lists
Observed(s) ==
    [attrs |-> fields[s].attrs,
     readwrite |-> heap[fields[s].attrs["readwrite"]],
     readonly |-> heap[fields[s].attrs["readonly"]]]

\* C9: no operation on one field (check, convert, an update of its readwrite
\* or readonly list) changes an attribute observed on another field, and no
\* check or convert changes an attribute of the field it is called on.
C9_NoSharedMutableState ==
    [][result'.op \in {"check", "convert", "acl"} =>
          \A g \in Slots :
              (fields[g] # NoField /\ (g # result'.slot \/ result'.op # "acl"))
                  => Observed(g)' = Observed(g)]_vars

DocumentedParams(cls) ==
    CASE cls \in {"CurrencyField", "DecimalField"} -> {"size", "precision"}
      [] cls = "IntField" -> {"size"}
      [] OTHER -> {"length"}

DocumentedDefault(cls, k) ==
    CASE cls = "CurrencyField" /\ k = "size" -> PyInt(10)
      [] cls = "CurrencyField" /\ k = "precision" -> PyInt(2)
      [] cls = "DecimalField" /\ k = "size" -> PyInt(10)
      [] cls = "DecimalField" /\ k = "precision" -> PyInt(5)
      [] cls = "EmailField" -> PyInt(255)
      [] cls = "PhoneField" -> PyInt(20)
      [] cls = "URLField" -> PyInt(2048)
      [] OTHER -> PyNone

\* C10: constructing a Currency, Decimal, Int, String, Email, Phone or URL
\* field with its documented size, precision or length succeeds and the
\* field reports the value given, or the documented default when none is.
C10_DocumentedParamsStored ==
    (result.op = "init" /\ result.cls \in
        {"CurrencyField", "DecimalField", "IntField", "StringField",
         "EmailField", "PhoneField", "URLField"}) =>
        /\ result.exc = "ok"
        /\ \A k \in DocumentedParams(result.cls) :
              Self.attrs[k] = Pop(result.kw, k, DocumentedDefault(result.cls, k))

====
